---- MODULE Spec2Model ----
(***************************************************************************)
(* The document-ingestion pipeline of functionapp/ai_ocr/process.py:       *)
(* initialize_document, update_state, run_ocr_and_gpt and                  *)
(* process_gpt_summary, run by sequential workers (one per document) that  *)
(* share the durable store and the scratch directory /tmp/.                *)
(***************************************************************************)
EXTENDS Integers, Sequences, FiniteSets, TLC

VARIABLES
    doc,      \* doc[w]: the in-memory document record worker w passes around
    store,    \* the container: id -> the record last acknowledged under that id
    scratch,  \* the files /tmp/page*.jpeg: page name -> image (shared by all runs)
    pc,       \* pc[w]: the line worker w stands at
    frame,    \* frame[w]: the local variables of the invocation worker w is in
    calls,    \* calls[w]: stage invocations worker w's caller may still make
    config,   \* the Config passed to run_ocr_and_gpt
    file,     \* file[w]: the encoded sizes of the pages of worker w's source file
    hist      \* hist[w]: history of worker w's invocations (observation only)

vars == <<doc, store, scratch, pc, frame, calls, config, file, hist>>

(***************************** bounds **************************************)
MaxCalls == 3       \* stage invocations made in one behaviour
MaxPages == 2       \* pages of a drawn source file
MaxSizeMb == 2      \* encoded size of a drawn page image, in MB
MaxCount == 2       \* drawn config.max_images
MaxLimitMb == 2     \* drawn config.gpt_vision_limit_mb
MaxNameLen == 2     \* characters of a drawn file name

Workers == {1, 2}
None == "None"
MB == 1024 * 1024

Min(a, b) == IF a <= b THEN a ELSE b

(************************ initialize_document ******************************)
\* file_name.replace('/', '__') on a file name given as a sequence of characters
replace_sep_none(s) == s

RECURSIVE replace_sep(_)
replace_sep(s) ==
    IF s = <<>> THEN <<>>
    ELSE (IF Head(s) = "/" THEN <<"_", "_">> ELSE <<Head(s)>>) \o replace_sep(Tail(s))

initialize_document(file_name, file_size, prompt, json_schema, request_timestamp) ==
    [ id |-> replace_sep(file_name),
      properties |-> [ blob_name |-> file_name,
                       blob_size |-> file_size,
                       request_timestamp |-> request_timestamp ],
      state |-> [ file_landed |-> FALSE,
                  ocr_completed |-> FALSE,
                  gpt_extraction_completed |-> FALSE,
                  gpt_summary_completed |-> FALSE,
                  processing_completed |-> FALSE ],
      \* the keys "<state_name>_time_seconds" of document['state']: absent at first
      time_seconds |-> << >>,
      extracted_data |-> [ classification |-> "N/A",
                           accuracy |-> 0,
                           ocr_output |-> "",
                           gpt_extraction_output |-> "{}",
                           gpt_summary_output |-> "" ],
      model_input |-> [ model_deployment |-> "deployment",
                        model_prompt |-> prompt,
                        example_schema |-> json_schema ],
      errors |-> << >> ]

\* the blob each worker was triggered for
file_name_of(w) == IF w = 1 THEN <<"a", "/", "b">> ELSE <<"c">>

(***************************** update_state ********************************)
\* lines 55-57: the in-memory part of update_state; processing_time None = omitted
update_state_reset(document, state_name, state, processing_time) ==
    LET cleared == [ k \in DOMAIN document.state |-> FALSE ]
        d1 == [ document EXCEPT !.state = [ cleared EXCEPT ![state_name] = state ] ]
    IN  IF processing_time # None
        THEN [ d1 EXCEPT !.time_seconds = (state_name :> processing_time) @@ @ ]
        ELSE d1

update_state_negated(document, state_name, state, processing_time) ==
    LET d1 == [ document EXCEPT !.state[state_name] = ~state ]
    IN  IF processing_time # None
        THEN [ d1 EXCEPT !.time_seconds = (state_name :> processing_time) @@ @ ]
        ELSE d1

update_state_untimed(document, state_name, state, processing_time) ==
    [ document EXCEPT !.state[state_name] = state ]

update_state_stamped(document, state_name, state, processing_time) ==
    LET d1 == [ document EXCEPT !.state[state_name] = state,
                                !.properties.request_timestamp = "later" ]
    IN  IF processing_time # None
        THEN [ d1 EXCEPT !.time_seconds = (state_name :> processing_time) @@ @ ]
        ELSE d1

update_state(document, state_name, state, processing_time) ==
    LET d1 == [ document EXCEPT !.state[state_name] = state ]
    IN  IF processing_time # None
        THEN [ d1 EXCEPT !.time_seconds = (state_name :> processing_time) @@ @ ]
        ELSE d1

\* line 58: container.upsert_item(document) when the store acknowledges it:
\* a full-record overwrite keyed by the record's id
upsert_item(container, document) ==
    (document.id :> document) @@ container

\* the measured wall-clock duration of a stage (its value is not modelled)
Measured == "seconds"

(***************************** image reduction *****************************)
\* get_size_of_base64_images: the total encoded size of the loaded images
RECURSIVE get_size_of_base64_images(_)
get_size_of_base64_images(imgs) ==
    IF imgs = <<>> THEN 0
    ELSE Head(imgs).size + get_size_of_base64_images(Tail(imgs))

\* line 92: imgs[:config.max_images]
limit_images(imgs, max_images) ==
    SubSeq(imgs, 1, Min(Len(imgs), max_images))

\* line 96
max_size(cfg) == cfg.gpt_vision_limit_mb * 1024 * 1024

\* line 97: the loop test
over_limit_or_equal(imgs, cfg) == get_size_of_base64_images(imgs) >= max_size(cfg)

over_limit(imgs, cfg) == get_size_of_base64_images(imgs) > max_size(cfg)

\* line 98: imgs.pop()
pop_nothing(imgs) == imgs

pop(imgs) == SubSeq(imgs, 1, Len(imgs) - 1)

\* extract_images_from_pdf: one file page<p>.jpeg per page of the source file,
\* written into the shared scratch directory over any file of the same name
extract_images_from_pdf(dir, w) ==
    [ p \in 1..Len(file[w]) |-> [ file |-> w, page |-> p, size |-> file[w][p] ] ] @@ dir

\* glob.glob returns the matching names in arbitrary order
Orderings(S) ==
    { s \in [ 1..Cardinality(S) -> S ] : \A i, j \in DOMAIN s : i # j => s[i] # s[j] }

(***************************** parsing *************************************)
FencedJson == "fenced json"
Malformed == "I cannot read this document"

\* parse_json_markdown followed by json.dumps: the canonical JSON text, or None
\* when the content does not parse
parse_json_markdown_default(content) ==
    IF content = FencedJson THEN "canonical json" ELSE "{}"

parse_json_markdown(content) ==
    IF content = FencedJson THEN "canonical json" ELSE None

(***************************** errors **************************************)
\* line 135: f"NL processing error: {str(e)}"
nl_error_plain(e) == [ prefix |-> "Error: ", detail |-> e ]

nl_error(e) == [ prefix |-> "NL processing error: ", detail |-> e ]

append_error_replace(errors, e) == << nl_error(e) >>

append_error(errors, e) == Append(errors, nl_error(e))

(***************************** frames and history **************************)
NoFrame ==
    [ ocr_result |-> None, globbed |-> << >>, imgs |-> << >>, structured |-> None,
      classification |-> None, gpt_summary |-> None, exc |-> None ]

NoHist(document) ==
    [ op |-> None,            \* the function last invoked
      outcome |-> None,       \* "returned" or the exception that left it
      failed |-> None,        \* the stage whose capability call or parse failed in it
      entry |-> document,     \* the document as it was when the invocation began
      rasterized |-> FALSE,   \* line 82 was passed in it
      cleaned |-> FALSE,      \* the deletion loop of lines 110-115 ran in it
      loaded |-> << >>,       \* the images line 93 loaded (while the invocation lasts)
      drops |-> 0,            \* iterations of the loop of lines 97-98 (while it lasts)
      done |-> {},            \* stages whose call returned and whose report was acknowledged in it
      acked |-> {},           \* the same, over all invocations on the record
      runs |-> 0,             \* invocations of run_ocr_and_gpt so far
      sums |-> 0,             \* invocations of process_gpt_summary so far
      persist |-> None,       \* how the last upsert of update_state in it ended: "ack" or "failed"
      invoked |-> << >>,      \* the capability calls made in it, in order, with their success
      categorization |-> None, \* the categorization of the argument of the last process_gpt_summary
      \* what the last returning run_ocr_and_gpt returned
      ret |-> [ ocr_response |-> None, gpt_response |-> None ] ]

Raise_retrying(w, e, stage) ==
    IF e = "CapabilityError"
    THEN /\ UNCHANGED <<pc, frame>>
         /\ hist' = [ hist EXCEPT ![w].invoked = Append(@, [ cap |-> stage, ok |-> FALSE ]) ]
    ELSE /\ pc' = [ pc EXCEPT ![w] = "idle" ]
         /\ frame' = [ frame EXCEPT ![w] = NoFrame ]
         /\ hist' = [ hist EXCEPT ![w].outcome = e, ![w].failed = stage,
                                  ![w].loaded = << >>, ![w].drops = 0,
                                  ![w].persist = IF e = "PersistenceFailure" THEN "failed" ELSE @ ]

Raise(w, e, stage) ==
    /\ pc' = [ pc EXCEPT ![w] = "idle" ]
    /\ frame' = [ frame EXCEPT ![w] = NoFrame ]
    /\ hist' = [ hist EXCEPT ![w].outcome = e, ![w].failed = stage,
                             ![w].loaded = << >>, ![w].drops = 0,
                             ![w].persist = IF e = "PersistenceFailure" THEN "failed" ELSE @,
                             ![w].invoked = IF e = "CapabilityError"
                                            THEN Append(@, [ cap |-> stage, ok |-> FALSE ])
                                            ELSE @ ]

(***************************** run_ocr_and_gpt *****************************)
\* the caller invokes run_ocr_and_gpt(file_to_ocr, prompt, json_schema, document, container, config)
run_ocr_and_gpt(w) ==
    /\ pc[w] = "idle"
    /\ calls[w] > 0
    /\ calls' = [ calls EXCEPT ![w] = @ - 1 ]
    /\ pc' = [ pc EXCEPT ![w] = "ocr" ]
    /\ frame' = [ frame EXCEPT ![w] = NoFrame ]
    /\ hist' = [ hist EXCEPT ![w] =
                   [ @ EXCEPT !.op = "run_ocr_and_gpt", !.outcome = None, !.failed = None,
                              !.entry = doc[w], !.rasterized = FALSE, !.cleaned = FALSE,
                              !.loaded = << >>, !.drops = 0, !.done = {},
                              !.persist = None, !.invoked = << >>,
                              !.runs = @ + 1 ] ]
    /\ UNCHANGED <<doc, store, scratch, config, file>>

\* line 74: ocr_result = get_ocr_results(file_to_ocr)
get_ocr_results(w) ==
    /\ pc[w] = "ocr"
    /\ \/ /\ pc' = [ pc EXCEPT ![w] = "report_ocr" ]
          /\ frame' = [ frame EXCEPT ![w].ocr_result = "ocr text" ]
          /\ hist' = [ hist EXCEPT ![w].invoked = Append(@, [ cap |-> "ocr", ok |-> TRUE ]) ]
       \/ Raise(w, "CapabilityError", "ocr")
    /\ UNCHANGED <<doc, store, scratch, calls, config, file>>

\* line 79: update_state(document, container, 'ocr_completed', True, ocr_processing_time)
report_ocr(w) ==
    /\ pc[w] = "report_ocr"
    /\ doc' = [ doc EXCEPT ![w] = update_state(@, "ocr_completed", TRUE, Measured) ]
    /\ \/ /\ store' = upsert_item(store, doc'[w])
          /\ pc' = [ pc EXCEPT ![w] = "rasterize" ]
          /\ hist' = [ hist EXCEPT ![w].done = @ \cup {"ocr"}, ![w].acked = @ \cup {"ocr"},
                                   ![w].persist = "ack" ]
          /\ UNCHANGED frame
       \/ /\ Raise(w, "PersistenceFailure", None)
          /\ UNCHANGED store
    /\ UNCHANGED <<scratch, calls, config, file>>

\* line 82: extract_images_from_pdf(file_to_ocr)
rasterize(w) ==
    /\ pc[w] = "rasterize"
    /\ scratch' = extract_images_from_pdf(scratch, w)
    /\ pc' = [ pc EXCEPT ![w] = "glob" ]
    /\ hist' = [ hist EXCEPT ![w].rasterized = TRUE ]
    /\ UNCHANGED <<doc, store, frame, calls, config, file>>

\* line 89: imgs = glob.glob("/tmp//page*.jpeg")
glob_images(w) ==
    /\ pc[w] = "glob"
    /\ \E names \in Orderings(DOMAIN scratch) :
          frame' = [ frame EXCEPT ![w].globbed = names ]
    /\ pc' = [ pc EXCEPT ![w] = "load" ]
    /\ UNCHANGED <<doc, store, scratch, calls, config, file, hist>>

\* lines 92-93: imgs = imgs[:config.max_images]; imgs = [load_image(img) for img in imgs];
\* a file deleted since the glob makes load_image raise
load_images(w) ==
    /\ pc[w] = "load"
    /\ LET names == limit_images(frame[w].globbed, config.max_images)
       IN
       IF \A i \in DOMAIN names : names[i] \in DOMAIN scratch
       THEN LET loaded == [ i \in DOMAIN names |-> scratch[names[i]] ]
            IN  /\ frame' = [ frame EXCEPT ![w].imgs = loaded ]
                /\ hist' = [ hist EXCEPT ![w].loaded = loaded ]
                /\ pc' = [ pc EXCEPT ![w] = "reduce" ]
       ELSE Raise(w, "FileNotFoundError", None)
    /\ UNCHANGED <<doc, store, scratch, calls, config, file>>

\* lines 97-98: one iteration of the loop; pop() on an empty list raises
reduce_pop(w) ==
    /\ pc[w] = "reduce"
    /\ over_limit(frame[w].imgs, config)
    /\ IF frame[w].imgs = << >>
       THEN Raise(w, "IndexError", None)
       ELSE /\ frame' = [ frame EXCEPT ![w].imgs = pop(@) ]
            /\ hist' = [ hist EXCEPT ![w].drops = @ + 1 ]
            /\ UNCHANGED pc
    /\ UNCHANGED <<doc, store, scratch, calls, config, file>>

\* line 102: structured = get_structured_data(ocr_result.content, prompt, json_schema, imgs)
get_structured_data(w) ==
    /\ pc[w] = "reduce"
    /\ ~over_limit(frame[w].imgs, config)
    /\ \/ \E content \in {FencedJson, Malformed} :
             /\ frame' = [ frame EXCEPT ![w].structured = content ]
             /\ pc' = [ pc EXCEPT ![w] = "report_extraction" ]
             /\ hist' = [ hist EXCEPT ![w].invoked =
                                        Append(@, [ cap |-> "gpt_extraction", ok |-> TRUE ]) ]
       \/ Raise(w, "CapabilityError", "gpt_extraction")
    /\ UNCHANGED <<doc, store, scratch, calls, config, file>>

\* line 107: update_state(document, container, 'gpt_extraction_completed', True, gpt_extraction_time)
report_extraction(w) ==
    /\ pc[w] = "report_extraction"
    /\ doc' = [ doc EXCEPT ![w] = update_state(@, "gpt_extraction_completed", TRUE, Measured) ]
    /\ \/ /\ store' = upsert_item(store, doc'[w])
          /\ pc' = [ pc EXCEPT ![w] = "delete" ]
          /\ hist' = [ hist EXCEPT ![w].done = @ \cup {"gpt_extraction"},
                                   ![w].acked = @ \cup {"gpt_extraction"},
                                   ![w].persist = "ack" ]
          /\ UNCHANGED frame
       \/ /\ Raise(w, "PersistenceFailure", None)
          /\ UNCHANGED store
    /\ UNCHANGED <<scratch, calls, config, file>>

\* lines 110-115: os.remove on every /tmp/page*.jpeg; a failing removal is
\* printed and the loop goes on, so any subset of the files may remain
delete_images(w) ==
    /\ pc[w] = "delete"
    /\ \E kept \in SUBSET (DOMAIN scratch) :
          scratch' = [ p \in kept |-> scratch[p] ]
    /\ pc' = [ pc EXCEPT ![w] = "parse" ]
    /\ hist' = [ hist EXCEPT ![w].cleaned = TRUE ]
    /\ UNCHANGED <<doc, store, frame, calls, config, file>>

\* lines 118-119: x = parse_json_markdown(structured.content);
\* return ocr_result.content, json.dumps(x), processing_times
parse_and_return(w) ==
    /\ pc[w] = "parse"
    /\ IF parse_json_markdown(frame[w].structured) = None
       THEN Raise(w, "OutputParserException", "gpt_extraction")
       ELSE /\ pc' = [ pc EXCEPT ![w] = "returned" ]
            /\ frame' = [ frame EXCEPT ![w] = NoFrame ]
            /\ hist' = [ hist EXCEPT ![w].outcome = "returned",
                                     ![w].loaded = << >>, ![w].drops = 0,
                                     ![w].ret = [ ocr_response |-> frame[w].ocr_result,
                                                  gpt_response |-> parse_json_markdown(frame[w].structured) ] ]
    /\ UNCHANGED <<doc, store, scratch, calls, config, file>>

\* the caller, once run_ocr_and_gpt has returned, puts the two outputs into
\* the record's extracted_data
store_outputs(w) ==
    /\ pc[w] = "returned"
    /\ doc' = [ doc EXCEPT ![w].extracted_data.ocr_output = hist[w].ret.ocr_response,
                           ![w].extracted_data.gpt_extraction_output = hist[w].ret.gpt_response ]
    /\ pc' = [ pc EXCEPT ![w] = "idle" ]
    /\ UNCHANGED <<store, scratch, frame, calls, config, file, hist>>

(***************************** process_gpt_summary *************************)
\* lines 123-127: classification = 'N/A', replaced by ocr_response.categorization
\* when the argument has that attribute (None: it has not; AttributeError is caught)
classification_of_raw(categorization) == categorization

classification_of(categorization) ==
    IF categorization = None THEN "N/A" ELSE categorization

\* the caller invokes process_gpt_summary(ocr_response, document, container)
\* with the extraction result; lines 123-127 read its optional categorization
process_gpt_summary(w) ==
    /\ pc[w] = "idle"
    /\ calls[w] > 0
    /\ hist[w].ret.gpt_response # None
    /\ calls' = [ calls EXCEPT ![w] = @ - 1 ]
    /\ \E categorization \in {None, "invoice"} :
          /\ frame' = [ frame EXCEPT ![w] =
                          [ NoFrame EXCEPT !.classification = classification_of(categorization) ] ]
          /\ hist' = [ hist EXCEPT ![w] =
                   [ @ EXCEPT !.op = "process_gpt_summary", !.outcome = None, !.failed = None,
                              !.entry = doc[w], !.rasterized = FALSE, !.cleaned = FALSE,
                              !.loaded = << >>, !.drops = 0, !.done = {},
                              !.persist = None, !.invoked = << >>,
                              !.categorization = categorization,
                              !.sums = @ + 1 ] ]
    /\ pc' = [ pc EXCEPT ![w] = "summary" ]
    /\ UNCHANGED <<doc, store, scratch, config, file>>

\* line 129: gpt_summary = get_summary_with_gpt(ocr_response)
get_summary_with_gpt(w) ==
    /\ pc[w] = "summary"
    /\ \/ /\ frame' = [ frame EXCEPT ![w].gpt_summary = "summary text" ]
          /\ pc' = [ pc EXCEPT ![w] = "report_summary" ]
          /\ hist' = [ hist EXCEPT ![w].invoked =
                                     Append(@, [ cap |-> "gpt_summary", ok |-> TRUE ]) ]
       \/ /\ frame' = [ frame EXCEPT ![w].exc = "CapabilityError" ]
          /\ pc' = [ pc EXCEPT ![w] = "handler" ]
          /\ hist' = [ hist EXCEPT ![w].failed = "gpt_summary",
                                   ![w].invoked =
                                     Append(@, [ cap |-> "gpt_summary", ok |-> FALSE ]) ]
    /\ UNCHANGED <<doc, store, scratch, calls, config, file>>

\* lines 131-133: update_state(..., 'gpt_summary_completed', True, summary_processing_time),
\* then classification and gpt_summary_output are put into the document
report_summary(w) ==
    /\ pc[w] = "report_summary"
    /\ LET reported == update_state(doc[w], "gpt_summary_completed", TRUE, Measured)
       IN  \/ /\ store' = upsert_item(store, reported)
              /\ doc' = [ doc EXCEPT ![w] =
                            [ reported EXCEPT
                                !.extracted_data.classification = frame[w].classification,
                                !.extracted_data.gpt_summary_output = frame[w].gpt_summary ] ]
              /\ pc' = [ pc EXCEPT ![w] = "idle" ]
              /\ frame' = [ frame EXCEPT ![w] = NoFrame ]
              /\ hist' = [ hist EXCEPT ![w].outcome = "returned",
                                       ![w].done = @ \cup {"gpt_summary"},
                                       ![w].acked = @ \cup {"gpt_summary"},
                                       ![w].persist = "ack" ]
           \/ /\ doc' = [ doc EXCEPT ![w] = reported ]
              /\ frame' = [ frame EXCEPT ![w].exc = "PersistenceFailure" ]
              /\ pc' = [ pc EXCEPT ![w] = "handler" ]
              /\ hist' = [ hist EXCEPT ![w].persist = "failed" ]
              /\ UNCHANGED store
    /\ UNCHANGED <<scratch, calls, config, file>>

\* lines 134-137: the except clause
summary_handler(w) ==
    /\ pc[w] = "handler"
    /\ LET noted == [ doc[w] EXCEPT !.errors = append_error(@, frame[w].exc) ]
           reported == update_state(noted, "gpt_summary_completed", FALSE, None)
       IN  /\ doc' = [ doc EXCEPT ![w] = reported ]
           /\ \/ /\ store' = upsert_item(store, reported)
                 /\ pc' = [ pc EXCEPT ![w] = "idle" ]
                 /\ frame' = [ frame EXCEPT ![w] = NoFrame ]
                 /\ hist' = [ hist EXCEPT ![w].outcome = frame[w].exc, ![w].persist = "ack" ]
              \/ /\ UNCHANGED store
                 /\ pc' = [ pc EXCEPT ![w] = "idle" ]
                 /\ frame' = [ frame EXCEPT ![w] = NoFrame ]
                 /\ hist' = [ hist EXCEPT ![w].outcome = "PersistenceFailure",
                                          ![w].persist = "failed" ]
    /\ UNCHANGED <<scratch, calls, config, file>>

(***************************** specifications ******************************)
InitRecords ==
    /\ doc = [ w \in Workers |->
                 initialize_document(file_name_of(w), Len(file[w]), "prompt", "schema", "now") ]
    /\ store = << >>
    /\ scratch = << >>
    /\ pc = [ w \in Workers |-> "idle" ]
    /\ frame = [ w \in Workers |-> NoFrame ]
    /\ hist = [ w \in Workers |-> NoHist(doc[w]) ]

\* two documents land; their workers share MaxCalls stage invocations
Init ==
    /\ file = (1 :> << 2 * MB, MB >>) @@ (2 :> << MB >>)
    /\ config = [ max_images |-> 2, gpt_vision_limit_mb |-> 2 ]
    /\ calls \in { c \in [ Workers -> 0..MaxCalls ] : c[1] + c[2] = MaxCalls }
    /\ InitRecords

Next ==
    \E w \in Workers :
        \/ run_ocr_and_gpt(w)
        \/ get_ocr_results(w)
        \/ report_ocr(w)
        \/ rasterize(w)
        \/ glob_images(w)
        \/ load_images(w)
        \/ reduce_pop(w)
        \/ get_structured_data(w)
        \/ report_extraction(w)
        \/ delete_images(w)
        \/ parse_and_return(w)
        \/ store_outputs(w)
        \/ process_gpt_summary(w)
        \/ get_summary_with_gpt(w)
        \/ report_summary(w)
        \/ summary_handler(w)

Spec == Init /\ [][Next]_vars

\* one document makes one pass (run_ocr_and_gpt, then process_gpt_summary) over
\* a drawn source file and a drawn Config; glob_images draws the page order
PageSizes == { k * MB : k \in 0..MaxSizeMb }

DrawnFiles ==
    { s \in UNION { [ 1..n -> PageSizes ] : n \in 0..MaxPages } :
        \A i, j \in DOMAIN s : i <= j => s[i] <= s[j] }

InitReduce ==
    /\ \/ /\ file \in { (1 :> s) @@ (2 :> << >>) : s \in DrawnFiles }
          /\ config \in [ max_images : 0..MaxCount, gpt_vision_limit_mb : 0..MaxLimitMb ]
       \/ /\ file = (1 :> << 9 * MB, 6 * MB, 3 * MB, 8 * MB, 2 * MB >>) @@ (2 :> << >>)
          /\ config = [ max_images |-> 10, gpt_vision_limit_mb |-> 20 ]
    /\ calls = (1 :> 2) @@ (2 :> 0)
    /\ InitRecords

SpecReduce == InitReduce /\ [][Next]_vars

\* files land one after another under drawn names: each landing creates the
\* worker's record anew with initialize_document
NameChars == {"a", "/", "_"}

FileNames == UNION { [ 1..n -> NameChars ] : n \in 1..MaxNameLen }

\* the other arguments of initialize_document (size, prompt, schema, timestamp)
Landings ==
    { [ file_size |-> 1, prompt |-> "prompt", json_schema |-> "schema",
        request_timestamp |-> "now" ],
      [ file_size |-> 2, prompt |-> "other prompt", json_schema |-> "other schema",
        request_timestamp |-> "later" ] }

land(w) ==
    /\ pc[w] = "idle"
    /\ \E file_name \in FileNames, l \in Landings :
          doc' = [ doc EXCEPT ![w] =
                     initialize_document(file_name, l.file_size, l.prompt, l.json_schema,
                                         l.request_timestamp) ]
    /\ UNCHANGED <<store, scratch, pc, frame, calls, config, file, hist>>

InitId ==
    /\ file = (1 :> << MB >>) @@ (2 :> << MB >>)
    /\ config = [ max_images |-> 2, gpt_vision_limit_mb |-> 2 ]
    /\ calls = [ w \in Workers |-> 0 ]
    /\ InitRecords

NextId == \E w \in Workers : land(w)

SpecId == InitId /\ [][NextId]_vars

(***************************** observations ********************************)
Stages == {"ocr", "gpt_extraction", "gpt_summary"}

Flag(s) ==
    CASE s = "ocr" -> "ocr_completed"
      [] s = "gpt_extraction" -> "gpt_extraction_completed"
      [] s = "gpt_summary" -> "gpt_summary_completed"

Stored(w) == doc[w].id \in DOMAIN store

\* the stage's completion flag in the stored record (false while no record is stored)
StoredFlag(w, s) == Stored(w) /\ store[doc[w].id].state[Flag(s)]

StoredErrors(w) == IF Stored(w) THEN store[doc[w].id].errors ELSE << >>

IsPrefix(s, t) == Len(s) <= Len(t) /\ SubSeq(t, 1, Len(s)) = s

\* worker w's last invocation has ended by raising
Raised(w) == pc[w] = "idle" /\ hist[w].outcome \notin {None, "returned"}

(***************************** C1 ******************************************)
\* C1 as stated: in every reachable state, for every stage, the stored
\* record's completion flag is true if and only if the stage's capability call
\* returned successfully and the store acknowledged the update_state upsert
\* made after it.
C1_FlagIffCallAndAck ==
    \A w \in Workers : \A s \in Stages :
        StoredFlag(w, s) <=> s \in hist[w].acked

\* C1 amended: the equivalence holds on a record on which run_ocr_and_gpt has
\* been invoked at most once and process_gpt_summary at most once (no stage is
\* retried on the record).
C1_FlagIffCallAndAckSinglePass ==
    \A w \in Workers :
        (hist[w].runs <= 1 /\ hist[w].sums <= 1) =>
            \A s \in Stages : StoredFlag(w, s) <=> s \in hist[w].acked

\* a single pass in which the summary call returned but its report was not
\* acknowledged: the two earlier flags are stored true, the summary flag is not
C1_Witness ==
    \E w \in Workers :
        /\ hist[w].runs = 1 /\ hist[w].sums = 1
        /\ pc[w] = "idle" /\ hist[w].op = "process_gpt_summary"
        /\ hist[w].outcome = "PersistenceFailure" /\ hist[w].failed = None
        /\ StoredFlag(w, "ocr") /\ StoredFlag(w, "gpt_extraction")
        /\ ~StoredFlag(w, "gpt_summary")

(***************************** C2 ******************************************)
\* C2: whenever a stage fails (its capability call raises, or the extraction
\* response does not parse), then when the failure has propagated out of the
\* invocation the record's errors have gained an entry and the stage's
\* completion flag is false.
C2_FailureRecordedBeforePropagation ==
    \A w \in Workers :
        (Raised(w) /\ hist[w].failed # None) =>
            /\ Len(doc[w].errors) > Len(hist[w].entry.errors)
            /\ ~doc[w].state[Flag(hist[w].failed)]

(***************************** C3 ******************************************)
OutputOf(document, s) ==
    CASE s = "ocr" -> document.extracted_data.ocr_output
      [] s = "gpt_extraction" -> document.extracted_data.gpt_extraction_output
      [] s = "gpt_summary" -> document.extracted_data.gpt_summary_output

ProducedBy(s) ==
    CASE s = "ocr" -> "ocr text"
      [] s = "gpt_extraction" -> "canonical json"
      [] s = "gpt_summary" -> "summary text"

\* C3: when run_ocr_and_gpt aborts after stages completed, the document
\* record holds each completed stage's flag (true), duration and output.
C3_CompletedStagesRetained ==
    \A w \in Workers :
        (Raised(w) /\ hist[w].op = "run_ocr_and_gpt") =>
            \A s \in hist[w].done :
                /\ doc[w].state[Flag(s)]
                /\ Flag(s) \in DOMAIN doc[w].time_seconds
                /\ OutputOf(doc[w], s) = ProducedBy(s)

(***************************** C4 ******************************************)
\* worker w's last invocation was a process_gpt_summary whose summarization
\* call failed, and it has ended
SummaryCallFailed(w) ==
    /\ pc[w] = "idle"
    /\ hist[w].op = "process_gpt_summary"
    /\ hist[w].failed = "gpt_summary"

SummaryFailureEffects(w) ==
    /\ Len(doc[w].errors) = Len(hist[w].entry.errors) + 1
    /\ SubSeq(doc[w].errors, 1, Len(hist[w].entry.errors)) = hist[w].entry.errors
    /\ doc[w].errors[Len(doc[w].errors)].prefix = "NL processing error: "
    /\ ~doc[w].state["gpt_summary_completed"]
    /\ doc[w].extracted_data = hist[w].entry.extracted_data

\* C4 as stated: a failed summarization call appends exactly one error
\* starting "NL processing error:", leaves gpt_summary_completed false and
\* extracted_data unchanged, and the summarization exception is re-raised.
C4_SummaryFailureReraised ==
    \A w \in Workers :
        SummaryCallFailed(w) =>
            /\ SummaryFailureEffects(w)
            /\ hist[w].outcome = "CapabilityError"

\* C4 amended: the same effects, and the invocation ends by raising: the
\* summarization exception when the except clause's upsert is acknowledged
\* (the stored record then equals the document), the store's exception when
\* that upsert fails.
C4_SummaryFailureRaises ==
    \A w \in Workers :
        SummaryCallFailed(w) =>
            /\ SummaryFailureEffects(w)
            /\ hist[w].outcome =
                 IF Stored(w) /\ store[doc[w].id] = doc[w]
                 THEN "CapabilityError" ELSE "PersistenceFailure"

\* a failed summarization call on a record that already holds extraction data
C4_Witness ==
    \E w \in Workers :
        /\ SummaryCallFailed(w)
        /\ hist[w].outcome = "CapabilityError"
        /\ doc[w].extracted_data.ocr_output = "ocr text"
        /\ doc[w].errors # << >>

(***************************** C5 ******************************************)
KeepsFlag(w, s) ==
    /\ doc[w].state[Flag(s)] => doc'[w].state[Flag(s)]
    /\ StoredFlag(w, s) => StoredFlag(w, s)'

\* C5 as stated: over any sequence of stage invocations, a stage flag that
\* has become true in the record is never set back to false.
C5_FlagsNeverReverted ==
    [][ \A w \in Workers : \A s \in Stages : KeepsFlag(w, s) ]_vars

\* C5 amended: ocr_completed and gpt_extraction_completed are never set back
\* to false; gpt_summary_completed is set back to false in the document only
\* by the except clause of process_gpt_summary, and in the stored record only
\* by an acknowledged upsert of a document in which it is false.
C5_OnlySummaryFlagReverted ==
    [][ \A w \in Workers :
          /\ KeepsFlag(w, "ocr")
          /\ KeepsFlag(w, "gpt_extraction")
          /\ (doc[w].state["gpt_summary_completed"] /\ ~doc'[w].state["gpt_summary_completed"])
                => pc[w] = "handler"
          /\ (StoredFlag(w, "gpt_summary") /\ ~StoredFlag(w, "gpt_summary")')
                => (store'[doc[w].id] = doc'[w] /\ ~doc'[w].state["gpt_summary_completed"]) ]_vars

\* a second run_ocr_and_gpt on a record whose OCR flag is true has failed at OCR
C5_Witness ==
    \E w \in Workers :
        /\ hist[w].runs >= 2
        /\ Raised(w) /\ hist[w].failed = "ocr"
        /\ doc[w].state["ocr_completed"] /\ StoredFlag(w, "ocr")

(***************************** C6 ******************************************)
\* C6: the errors sequence is append-only: every step of update_state,
\* run_ocr_and_gpt and process_gpt_summary leaves the earlier errors, of the
\* document and of the stored record, as a prefix of the later ones.
C6_ErrorsAppendOnly ==
    [][ \A w \in Workers :
          /\ IsPrefix(doc[w].errors, doc'[w].errors)
          /\ IsPrefix(StoredErrors(w), StoredErrors(w)') ]_vars

\* a retry of the summary stage has succeeded after an earlier failure, and
\* the earlier failure's entry is still in the document and in the store
C6_Witness ==
    \E w \in Workers :
        /\ pc[w] = "idle" /\ hist[w].op = "process_gpt_summary"
        /\ hist[w].outcome = "returned" /\ hist[w].sums >= 2
        /\ doc[w].errors # << >>
        /\ StoredErrors(w) = doc[w].errors

(***************************** C7 ******************************************)
\* C7: the images a run passes to the extraction capability were all
\* rasterized from that run's own source file.
C7_OnlyOwnImages ==
    \A w \in Workers :
        \A i \in DOMAIN frame[w].imgs : frame[w].imgs[i].file = w

(***************************** C8 ******************************************)
\* C8: on every exit of run_ocr_and_gpt reached after the page images were
\* rasterized (return, extraction call raises, extraction upsert raises,
\* parse failure) the deletion of the scratch images has been attempted.
C8_CleanupOnEveryExit ==
    \A w \in Workers :
        ( /\ pc[w] \in {"idle", "returned"}
          /\ hist[w].op = "run_ocr_and_gpt"
          /\ hist[w].rasterized
          /\ hist[w].outcome \in {"returned", "CapabilityError",
                                  "PersistenceFailure", "OutputParserException"} )
        => hist[w].cleaned

(***************************** C9 ******************************************)
\* the budget B in bytes
Budget == config.gpt_vision_limit_mb * MB

\* the globbed page files are the input sequence; N is their number
InputCount(w) == Len(frame[w].globbed)

\* C9: the image list passed to extraction is a prefix of the input sequence,
\* of length <= min(N, maxCount) and total encoded size <= B, and it is the
\* longest such prefix of the first min(N, maxCount) images.
C9_LongestPrefixWithinBudget ==
    \A w \in Workers :
        pc[w] = "report_extraction" =>
            LET imgs == frame[w].imgs
                bound == Min(InputCount(w), config.max_images)
            IN  /\ Len(imgs) <= bound
                /\ \A i \in DOMAIN imgs : imgs[i] = scratch[frame[w].globbed[i]]
                /\ get_size_of_base64_images(imgs) <= Budget
                /\ \/ Len(imgs) = bound
                   \/ get_size_of_base64_images(
                          [ i \in 1..(Len(imgs) + 1) |-> scratch[frame[w].globbed[i]] ]) > Budget

\* the example: sizes 9, 6, 3, 8, 2 MB in this order, maxCount 10, B = 20 MB:
\* the first three images are passed
C9_Witness ==
    \E w \in Workers :
        /\ pc[w] = "report_extraction"
        /\ file[w] = << 9 * MB, 6 * MB, 3 * MB, 8 * MB, 2 * MB >>
        /\ config = [ max_images |-> 10, gpt_vision_limit_mb |-> 20 ]
        /\ frame[w].globbed = << 1, 2, 3, 4, 5 >>
        /\ Len(frame[w].imgs) = 3

(***************************** C10 *****************************************)
\* C10: the loop of lines 97-98 never raises and makes at most min(N, maxCount)
\* drops (each drop shortens the list by one); an empty input ends at once
\* with the empty list, a first image over the budget ends with the empty
\* list, and the empty list is passed to the extraction capability.
C10_ReductionTerminates ==
    \A w \in Workers :
        /\ hist[w].outcome # "IndexError"
        /\ pc[w] \in {"reduce", "report_extraction"} =>
              /\ hist[w].drops + Len(frame[w].imgs) = Len(hist[w].loaded)
              /\ hist[w].drops <= Min(InputCount(w), config.max_images)
        /\ (pc[w] = "reduce" /\ frame[w].imgs = << >>) => ENABLED get_structured_data(w)
        /\ (pc[w] = "report_extraction" /\ hist[w].loaded = << >>) =>
              (hist[w].drops = 0 /\ frame[w].imgs = << >>)
        /\ ( /\ pc[w] = "report_extraction"
             /\ hist[w].loaded # << >>
             /\ hist[w].loaded[1].size > Budget ) => frame[w].imgs = << >>

\* two images were loaded, the first alone exceeds the budget, both were
\* dropped and the extraction capability was called with the empty list
C10_Witness ==
    \E w \in Workers :
        /\ pc[w] = "report_extraction"
        /\ Len(hist[w].loaded) = 2
        /\ hist[w].loaded[1].size > Budget
        /\ hist[w].drops = 2
        /\ frame[w].imgs = << >>

(***************************** C11 *****************************************)
\* the lines at which update_state is called, with the arguments of the call
ReportPcs == {"report_ocr", "report_extraction", "report_summary", "handler"}

ReportedName(p) ==
    CASE p = "report_ocr" -> "ocr_completed"
      [] p = "report_extraction" -> "gpt_extraction_completed"
      [] p \in {"report_summary", "handler"} -> "gpt_summary_completed"

ReportedValue(p) == p # "handler"

ReportedWithTime(p) == p # "handler"

\* C11: when the upsert of an update_state call fails, the failure propagates
\* to the caller of update_state, the in-memory document holds the update
\* (state[stage] = value and, when given, the duration) and the store is as
\* it was before the call.
C11_FailedUpsertKeepsUpdateInMemory ==
    [][ \A w \in Workers :
          (pc[w] \in ReportPcs /\ pc'[w] # pc[w] /\ hist'[w].persist = "failed") =>
              /\ store' = store
              /\ doc'[w].state[ReportedName(pc[w])] = ReportedValue(pc[w])
              /\ ReportedWithTime(pc[w]) =>
                    ReportedName(pc[w]) \in DOMAIN doc'[w].time_seconds
              /\ \/ pc'[w] = "idle" /\ hist'[w].outcome = "PersistenceFailure"
                 \/ pc'[w] = "handler" /\ frame'[w].exc = "PersistenceFailure" ]_vars

\* the upsert of the OCR report failed on a fresh record: the document says
\* ocr_completed with its duration, nothing is stored, the run has raised
C11_Witness ==
    \E w \in Workers :
        /\ Raised(w) /\ hist[w].outcome = "PersistenceFailure"
        /\ hist[w].op = "run_ocr_and_gpt" /\ hist[w].persist = "failed"
        /\ doc[w].state["ocr_completed"]
        /\ "ocr_completed" \in DOMAIN doc[w].time_seconds
        /\ ~Stored(w)

(***************************** C12 *****************************************)
\* C12: when the extraction capability returned a response that does not
\* parse, run_ocr_and_gpt ends by raising an error other than that of a
\* failed capability call, and returns nothing: no extraction result reaches
\* the caller or the record.
C12_MalformedResponseSurfaces ==
    [][ \A w \in Workers :
          ( /\ frame[w].structured = Malformed
            /\ pc[w] \notin {"idle", "returned"}
            /\ pc'[w] \in {"idle", "returned"} )
          => /\ pc'[w] = "idle"
             /\ hist'[w].outcome \in {"OutputParserException", "PersistenceFailure"}
             /\ hist'[w].ret = hist[w].ret
             /\ doc'[w].extracted_data = doc[w].extracted_data ]_vars

\* a first run whose response did not parse has ended with the parse error,
\* after the extraction report was acknowledged and the images were deleted
C12_Witness ==
    \E w \in Workers :
        /\ Raised(w) /\ hist[w].op = "run_ocr_and_gpt"
        /\ hist[w].outcome = "OutputParserException"
        /\ hist[w].failed = "gpt_extraction"
        /\ hist[w].cleaned
        /\ hist[w].ret.gpt_response = None
        /\ doc[w].extracted_data.gpt_extraction_output = "{}"

(***************************** C13 *****************************************)
Invoked(w, cap) == \E i \in DOMAIN hist[w].invoked : hist[w].invoked[i].cap = cap

\* C13: within a run the extraction capability is invoked only after the OCR
\* capability returned and the ocr_completed upsert was acknowledged, and in the
\* document and in the stored record gpt_extraction_completed implies
\* ocr_completed.
C13_ExtractionAfterOcr ==
    \A w \in Workers :
        /\ (hist[w].op = "run_ocr_and_gpt" /\ Invoked(w, "gpt_extraction")) =>
              /\ "ocr" \in hist[w].done
              /\ hist[w].invoked[1] = [ cap |-> "ocr", ok |-> TRUE ]
        /\ doc[w].state["gpt_extraction_completed"] => doc[w].state["ocr_completed"]
        /\ StoredFlag(w, "gpt_extraction") => StoredFlag(w, "ocr")

\* the extraction report of a run has been acknowledged
C13_Witness ==
    \E w \in Workers :
        /\ pc[w] = "delete"
        /\ hist[w].invoked = << [ cap |-> "ocr", ok |-> TRUE ],
                                [ cap |-> "gpt_extraction", ok |-> TRUE ] >>
        /\ StoredFlag(w, "gpt_extraction") /\ StoredFlag(w, "ocr")

(***************************** C14 *****************************************)
CapabilitiesOf(op) ==
    CASE op = "run_ocr_and_gpt" -> {"ocr", "gpt_extraction"}
      [] op = "process_gpt_summary" -> {"gpt_summary"}
      [] OTHER -> {}

\* C14: in one invocation each capability is invoked at most once (the OCR and
\* extraction capabilities by run_ocr_and_gpt, the summarization capability by
\* process_gpt_summary), and a failed capability call is the last one made.
C14_NoInternalRetry ==
    \A w \in Workers :
        LET calls_made == hist[w].invoked
        IN  /\ \A i, j \in DOMAIN calls_made :
                  calls_made[i].cap = calls_made[j].cap => i = j
            /\ \A i \in DOMAIN calls_made :
                  /\ calls_made[i].cap \in CapabilitiesOf(hist[w].op)
                  /\ ~calls_made[i].ok => i = Len(calls_made)

\* a run has ended because the extraction call failed, after one OCR call and
\* one extraction call
C14_Witness ==
    \E w \in Workers :
        /\ Raised(w) /\ hist[w].outcome = "CapabilityError"
        /\ hist[w].invoked = << [ cap |-> "ocr", ok |-> TRUE ],
                                [ cap |-> "gpt_extraction", ok |-> FALSE ] >>

(***************************** C15 *****************************************)
NewErrors(w) == SubSeq(doc[w].errors, Len(hist[w].entry.errors) + 1, Len(doc[w].errors))

\* C15: when the extraction result has no categorization field,
\* process_gpt_summary does not fail because of it: every error entry it appends
\* reports a failed summarization call or a failed upsert, the summarization
\* capability is invoked, and when the call and the upsert succeed the record's
\* classification is "N/A" and gpt_summary_completed is true.
C15_MissingCategorizationTolerated ==
    \A w \in Workers :
        (hist[w].op = "process_gpt_summary" /\ hist[w].categorization = None) =>
            /\ IsPrefix(hist[w].entry.errors, doc[w].errors)
            /\ pc[w] \in {"summary", "report_summary"} => NewErrors(w) = << >>
            /\ pc[w] # "summary" => Invoked(w, "gpt_summary")
            /\ (pc[w] = "idle" /\ hist[w].outcome = "returned") =>
                  /\ NewErrors(w) = << >>
                  /\ doc[w].extracted_data.classification = "N/A"
                  /\ doc[w].state["gpt_summary_completed"]
            /\ Raised(w) =>
                  /\ hist[w].outcome \in {"CapabilityError", "PersistenceFailure"}
                  /\ \/ hist[w].failed = "gpt_summary"
                     \/ NewErrors(w) = << nl_error("PersistenceFailure") >>
                  /\ hist[w].failed = "gpt_summary" =>
                        NewErrors(w) = << nl_error("CapabilityError") >>

\* process_gpt_summary has returned for an extraction result without a
\* categorization field
C15_Witness ==
    \E w \in Workers :
        /\ pc[w] = "idle" /\ hist[w].op = "process_gpt_summary"
        /\ hist[w].categorization = None /\ hist[w].outcome = "returned"
        /\ doc[w].extracted_data.classification = "N/A"
        /\ doc[w].state["gpt_summary_completed"]
        /\ doc[w].errors = hist[w].entry.errors

(***************************** C16 *****************************************)
\* the stage has been reported through update_state on worker w's record:
\* lines 79, 107 and 131 report true, and line 136, the only report of false,
\* always follows the append of line 135
ReportedStage(w, s) ==
    \/ doc[w].state[Flag(s)]
    \/ s = "gpt_summary" /\ doc[w].errors # << >>

\* C16: in every reachable state of a record, a stage's paired duration is
\* present exactly when the stage has been reported through update_state,
\* whether as completed (true) or as failed (false).
C16_DurationIffReported ==
    \A w \in Workers : \A s \in Stages :
        (Flag(s) \in DOMAIN doc[w].time_seconds) <=> ReportedStage(w, s)

(***************************** C17 *****************************************)
\* the record initialize_document created for worker w's file
Created(w) == initialize_document(file_name_of(w), Len(file[w]), "prompt", "schema", "now")

SameIdentity(record, created) ==
    /\ record.id = created.id
    /\ record.properties = created.properties
    /\ record.model_input = created.model_input

\* C17: after initialize_document has created a record, no operation
\* (update_state, run_ocr_and_gpt, process_gpt_summary), on success or on
\* failure, changes its id, its properties group or its model_input group: in
\* every reachable state the record in memory and the stored record carry the
\* values of creation.
C17_IdentityImmutable ==
    \A w \in Workers :
        /\ SameIdentity(doc[w], Created(w))
        /\ Created(w).id \in DOMAIN store => SameIdentity(store[Created(w).id], Created(w))
        /\ DOMAIN store \subseteq { Created(v).id : v \in Workers }

\* a record has been through a returning run_ocr_and_gpt and a failing
\* process_gpt_summary, and is stored
C17_Witness ==
    \E w \in Workers :
        /\ Raised(w) /\ hist[w].op = "process_gpt_summary"
        /\ doc[w].state["gpt_extraction_completed"]
        /\ doc[w].errors # << >>
        /\ Stored(w) /\ store[doc[w].id].errors # << >>
        /\ SameIdentity(store[doc[w].id], Created(w))

(***************************** C18 *****************************************)
Chars(s) == { s[i] : i \in DOMAIN s }

\* C18: for every file name, with or without '/' separators, the id produced
\* by initialize_document contains no '/' and depends on the file name only:
\* records created for the same file name have the same id, whatever the size,
\* prompt, schema and timestamp.
C18_IdSeparatorFreeAndDeterministic ==
    \A v, w \in Workers :
        /\ "/" \notin Chars(doc[w].id)
        /\ doc[v].properties.blob_name = doc[w].properties.blob_name => doc[v].id = doc[w].id

\* two records created for one file name with a separator, with different
\* sizes, prompts, schemas and timestamps
C18_Witness ==
    /\ doc[1].properties.blob_name = <<"a", "/">>
    /\ doc[2].properties.blob_name = <<"a", "/">>
    /\ doc[1].properties.blob_size # doc[2].properties.blob_size
    /\ doc[1].properties.request_timestamp # doc[2].properties.request_timestamp
    /\ doc[1].model_input # doc[2].model_input
    /\ doc[1].id = <<"a", "_", "_">> /\ doc[2].id = doc[1].id

(***************************** C19 *****************************************)
\* C19: the id derivation is collision-free: records created for two distinct
\* file paths have distinct ids.
C19_IdCollisionFree ==
    \A v, w \in Workers :
        doc[v].properties.blob_name # doc[w].properties.blob_name => doc[v].id # doc[w].id

(***************************** C20 *****************************************)
\* C20: when process_gpt_summary has returned without raising, the record last
\* acknowledged by the store agrees with the record in memory on the summary
\* stage's result: gpt_summary_completed is true together with the
\* classification and the gpt_summary_output of that invocation, so the stored
\* record never shows the stage completed with the initial empty output.
C20_StoredSummaryAgrees ==
    \A w \in Workers :
        (pc[w] = "idle" /\ hist[w].op = "process_gpt_summary" /\ hist[w].outcome = "returned") =>
            /\ Stored(w)
            /\ store[doc[w].id].state["gpt_summary_completed"]
            /\ store[doc[w].id].extracted_data.classification =
                  doc[w].extracted_data.classification
            /\ store[doc[w].id].extracted_data.gpt_summary_output =
                  doc[w].extracted_data.gpt_summary_output
            /\ store[doc[w].id].extracted_data.gpt_summary_output # ""

====
